---- MODULE Spec2Model ----
(***************************************************************************)
(* The Cluster reconciliation loop of k3k                                  *)
(* (src/pkg/controller/cluster/cluster.go) as a state machine.             *)
(*                                                                         *)
(* Text values are finite sequences: the empty string is <<>>, an address  *)
(* range "a.b.c.d/n" is <<a, b, c, d, n>>, a version string is a sequence  *)
(* of tokens in which "+" is the build-metadata separator.                 *)
(***************************************************************************)
EXTENDS Integers, Sequences, FiniteSets, TLC

VARIABLES
    clusters,   \* stored Cluster objects, by identity <<namespace, name>>
    fresh,      \* per Cluster: workers whose loaded copy has the stored resourceVersion
    nsLabel,    \* per namespace: value of the policy-name label ("" when absent)
    policies,   \* per VirtualClusterPolicy: Spec.AllowedMode
    res,        \* owned namespaced objects, by Cluster identity and kind
    bindings,   \* subjects of the two ClusterRoleBindings
    queue,      \* work queue: identities waiting for a worker
    dirty,      \* work queue: identities added again while being processed
    pass,       \* per worker: the reconciliation pass in flight
    host,       \* the host cluster: its version and its answers to the range lookup
    serverUp,   \* Clusters whose server workload answers bootstrap requests
    events,     \* failures injected and user edits made so far
    nsEvent,    \* the last namespace event delivered to the event handler
    hist        \* per Cluster: passes run on it so far, and whether its last pass
                \* was a successful convergence with no outside change since

vars == <<clusters, fresh, nsLabel, policies, res, bindings, queue, dirty, pass, host,
          serverUp, events, nsEvent, hist>>

(***************************************************************************)
(* Bound of the model: failing calls and user edits in one behaviour.      *)
(***************************************************************************)
MaxEvents == 1
\* passes on one Cluster are counted up to this number
PassCap == 4

Workers == {"w1"}
Namespaces == {"ns1"}
Keys == {<<"ns1", "alpha">>, <<"ns1", "system">>}
NoKey == <<"", "">>
PolicyNames == {"p1"}
NsOf(k) == k[1]
NameOf(k) == k[2]

(***************************************************************************)
(* Program constants.                                                      *)
(***************************************************************************)
clusterFinalizerName == "cluster.k3k.io/finalizer"
ClusterInvalidName == "system"
defaultVirtualClusterCIDR == <<10, 52, 0, 0, 16>>
defaultVirtualServiceCIDR == <<10, 53, 0, 0, 16>>
defaultSharedClusterCIDR == <<10, 42, 0, 0, 16>>
defaultSharedServiceCIDR == <<10, 43, 0, 0, 16>>
defaultKubeletPort == 10250
defaultWebhookPort == 9443
serverNotReadyDelay == 10
clusterRoles == <<"k3k-kubelet-node", "k3k-priorityclass">>
RoleBindings == {clusterRoles[i] : i \in 1..Len(clusterRoles)}

SharedClusterMode == "shared"
VirtualClusterMode == "virtual"
Modes == {SharedClusterMode, VirtualClusterMode}

ClusterUnknown == "Unknown"
ClusterProvisioning == "Provisioning"
ReadyProvisioning == <<"False", "Provisioning">>

(***************************************************************************)
(* Input domains.                                                          *)
(***************************************************************************)
EmptyText == <<>>
SpecCIDRs == {EmptyText, <<10, 1, 0, 0, 16>>}
SpecVersions == {EmptyText, <<"v1.30.0-k3s1">>}
GitVersions == {<<"v1.31.0", "+", "k3s1">>, <<"v1.32.0">>}
\* what the host answers to the two discovery strategies of lookupServiceCIDR:
\* hint = text after "The range of valid IPs is " (<<>>: no such text),
\* listFails = listing the API-server pods fails, flag = value of the
\* --service-cluster-ip-range argument (<<>>: no pod or no such argument)
LookupTexts == {EmptyText, <<10, 96, 0, 1, 16>>, <<300>>}
\* the answers met in the reconciliation loop: a range found by the second
\* strategy, a first strategy that fails, and no range found by either
HostAnswers ==
    {[hint |-> EmptyText, listFails |-> FALSE, flag |-> <<10, 96, 0, 1, 16>>],
     [hint |-> <<300>>, listFails |-> FALSE, flag |-> EmptyText],
     [hint |-> EmptyText, listFails |-> FALSE, flag |-> EmptyText]}
LookupAnswers ==
    {[hint |-> h, listFails |-> FALSE, flag |-> EmptyText] : h \in LookupTexts}
    \cup {[hint |-> EmptyText, listFails |-> FALSE, flag |-> f] : f \in LookupTexts}
    \cup {[hint |-> EmptyText, listFails |-> TRUE, flag |-> EmptyText]}

ZeroSpec ==
    [mode |-> SharedClusterMode, version |-> EmptyText, clusterCIDR |-> EmptyText,
     serviceCIDR |-> EmptyText, expose |-> FALSE, mirrorHostNodes |-> FALSE,
     defaulted |-> FALSE]
ZeroStatus ==
    [phase |-> "", ready |-> <<>>, hostVersion |-> EmptyText, clusterCIDR |-> EmptyText,
     serviceCIDR |-> EmptyText, policyName |-> "", kubeletPort |-> 0, webhookPort |-> 0]
NoCluster ==
    [exists |-> FALSE, deleting |-> FALSE, finalizers |-> {}, spec |-> ZeroSpec,
     status |-> ZeroStatus]

\* the specs a Cluster is created with: each mode with and without a version
\* and address ranges, with and without ingress and host-node mirroring
\* (EditSpec changes the two address ranges one by one afterwards)
Specs ==
    {s \in [mode : Modes, version : SpecVersions, clusterCIDR : SpecCIDRs,
            serviceCIDR : SpecCIDRs, expose : BOOLEAN, mirrorHostNodes : BOOLEAN,
            defaulted : {FALSE}] :
        /\ (s.clusterCIDR = EmptyText) = (s.version = EmptyText)
        /\ (s.serviceCIDR = EmptyText) = (s.version = EmptyText)
        /\ s.mirrorHostNodes = ((s.mode = SharedClusterMode) = (s.version = EmptyText))
        /\ s.expose = ~s.mirrorHostNodes}


(***************************************************************************)
(* Pure helpers.                                                           *)
(***************************************************************************)
Pow2(n) == IF n = 0 THEN 1 ELSE IF n = 1 THEN 2 ELSE IF n = 2 THEN 4
           ELSE IF n = 3 THEN 8 ELSE IF n = 4 THEN 16 ELSE IF n = 5 THEN 32
           ELSE IF n = 6 THEN 64 ELSE IF n = 7 THEN 128 ELSE 256

\* net.ParseCIDR accepts "a.b.c.d/n" with octets in 0..255 and n in 0..32
ValidCIDR(t) ==
    /\ Len(t) = 5
    /\ \A i \in 1..4 : t[i] \in 0..255
    /\ t[5] \in 0..32

\* the network of a parsed range, as IPNet.String() prints it: host bits cleared
MaskCIDR(t) ==
    [i \in 1..5 |->
        IF i = 5 THEN t[5]
        ELSE LET keep == IF t[5] >= 8 * i THEN 8
                         ELSE IF t[5] <= 8 * (i - 1) THEN 0
                         ELSE t[5] - 8 * (i - 1)
                 unit == Pow2(8 - keep)
             IN (t[i] \div unit) * unit]

\* strings.Split(hostVersion.GitVersion, "+")[0]
RECURSIVE BeforePlus(_)
BeforePlus(v) ==
    IF v = <<>> \/ Head(v) = "+" THEN <<>> ELSE <<Head(v)>> \o BeforePlus(Tail(v))

\* mutation of K3sVersionOf: the host version is recorded as it was reported
K3sVersionOf_NoSuffix(gitVersion) == BeforePlus(gitVersion)

\* reconcile, lines 256-259: the version recorded for the host version
K3sVersionOf(gitVersion) == BeforePlus(gitVersion) \o <<"-k3s1">>

\* lookupServiceCIDR: [cidr, failed]
lookupServiceCIDR(a) ==
    IF a.hint # EmptyText
    THEN IF ValidCIDR(a.hint)
         THEN [cidr |-> MaskCIDR(a.hint), failed |-> FALSE]
         ELSE [cidr |-> EmptyText, failed |-> TRUE]
    ELSE IF a.listFails
    THEN [cidr |-> EmptyText, failed |-> TRUE]
    ELSE IF a.flag # EmptyText /\ ValidCIDR(a.flag)
    THEN [cidr |-> MaskCIDR(a.flag), failed |-> FALSE]
    ELSE [cidr |-> EmptyText, failed |-> FALSE]

\* mutation of validate: the reserved name is not checked
validate_ModeOnly(c, k, allowedMode) ==
    IF c.spec.mode # allowedMode THEN "validation" ELSE "none"

\* validate: the error kind, "none" when the Cluster is allowed by the policy
validate(c, k, allowedMode) ==
    IF NameOf(k) = ClusterInvalidName THEN "validation"
    ELSE IF c.spec.mode # allowedMode THEN "validation"
    ELSE "none"

\* mutation of AddFinalizer: the finalizer is never added
AddFinalizer_Noop(c) == c.finalizers

\* controllerutil.AddFinalizer: the finalizers after the call
AddFinalizer(c) == c.finalizers \cup {clusterFinalizerName}

\* mutation of NeedsInitialStatus: every pass takes the initial status as missing
NeedsInitialStatus_Always(c) == TRUE

\* Reconcile, line 164: the initial status is still to be written
NeedsInitialStatus(c) == c.status.phase = "" \/ c.status.phase = ClusterUnknown

\* Reconcile, lines 165-171
InitialStatus(st) == [st EXCEPT !.phase = ClusterProvisioning, !.ready = ReadyProvisioning]

\* mutation of Branch: the finalizer is ensured before the initial status
Branch_FinalizerFirst(c) ==
    IF c.deleting THEN "finalize"
    ELSE IF AddFinalizer(c) # c.finalizers THEN "finalizer"
    ELSE IF NeedsInitialStatus(c) THEN "init"
    ELSE "converge"

\* mutation of Branch: the deletion timestamp is looked at after the initial
\* status and the finalizer
Branch_DeletionLast(c) ==
    IF NeedsInitialStatus(c) THEN "init"
    ELSE IF AddFinalizer(c) # c.finalizers THEN "finalizer"
    ELSE IF c.deleting THEN "finalize"
    ELSE "converge"

\* mutation of Branch: convergence does not wait for the finalizer
Branch_SkipFinalizer(c) ==
    IF c.deleting THEN "finalize"
    ELSE IF NeedsInitialStatus(c) THEN "init"
    ELSE "converge"

\* Reconcile, lines 158-189: what a pass does with the Cluster it loaded
Branch(c) ==
    IF c.deleting THEN "finalize"
    ELSE IF NeedsInitialStatus(c) THEN "init"
    ELSE IF AddFinalizer(c) # c.finalizers THEN "finalizer"
    ELSE "converge"

\* mutation of NeedsHostVersion: a version already resolved is not looked at
NeedsHostVersion_IgnoreStatus(c) == c.spec.version = EmptyText

\* reconcile, line 250: the host version is to be resolved
NeedsHostVersion(c) == c.spec.version = EmptyText /\ c.status.hostVersion = EmptyText

\* reconcile, lines 270-276
ResolveClusterCIDR(c) ==
    IF c.spec.clusterCIDR # EmptyText THEN c.spec.clusterCIDR
    ELSE IF c.spec.mode = SharedClusterMode THEN defaultSharedClusterCIDR
    ELSE defaultVirtualClusterCIDR

\* reconcile, lines 278-299
ResolveServiceCIDR(c, answer) ==
    IF c.spec.serviceCIDR # EmptyText THEN c.spec.serviceCIDR
    ELSE LET looked == lookupServiceCIDR(answer)
             shared == IF c.spec.mode = SharedClusterMode
                       THEN IF looked.failed THEN defaultSharedServiceCIDR ELSE looked.cidr
                       ELSE EmptyText
         IN IF c.spec.mode = VirtualClusterMode THEN defaultVirtualServiceCIDR ELSE shared

\* the port allocator: the same port for the same identity on every call
AllocatedKubeletPort(k) == IF NameOf(k) = "alpha" THEN 30001 ELSE 30002
AllocatedWebhookPort(k) == IF NameOf(k) = "alpha" THEN 31001 ELSE 31002

\* updateStatus: phase and Ready condition after convergence returned err
updateStatus(st, err) ==
    IF err = "none" THEN [st EXCEPT !.phase = "Running", !.ready = <<"True", "Provisioned">>]
    ELSE IF err = "validation"
    THEN [st EXCEPT !.phase = "Failed", !.ready = <<"False", "ValidationFailed">>]
    ELSE IF err = "notReady"
    THEN [st EXCEPT !.phase = ClusterProvisioning, !.ready = ReadyProvisioning]
    ELSE [st EXCEPT !.phase = "Failed", !.ready = <<"False", "ProvisioningFailed">>]

\* mutation of StatusChanged: the status is written after every convergence
StatusChanged_Always(orig, obj) == TRUE

\* mutation of StatusChanged: only the phases are compared
StatusChanged_PhaseOnly(orig, obj) == orig.status.phase # obj.status.phase

\* Reconcile, line 193: equality.Semantic.DeepEqual(orig.Status, cluster.Status) is false
StatusChanged(orig, obj) == orig.status # obj.status

\* Reconcile, line 210
SpecChanged(orig, obj) == orig.spec # obj.spec

\* mutation of WritesSpec: a changed spec is persisted after a failed convergence too
WritesSpec_DespiteError(orig, obj, err) == SpecChanged(orig, obj)

\* Reconcile, lines 199-214: the spec is persisted
WritesSpec(orig, obj, err) == err = "none" /\ SpecChanged(orig, obj)

\* defaulting of the spec by the parts of a convergence that are outside the
\* source at hand: the fields they fill are filled
Defaulting(spec) == [spec EXCEPT !.defaulted = TRUE]

\* Reconcile, lines 200-207 and 216: what the pass returns for a convergence error
NoResult == [requeue |-> FALSE, after |-> 0, err |-> "none"]
ErrorResult(e) == [requeue |-> FALSE, after |-> 0, err |-> e]
RequeueResult == [requeue |-> TRUE, after |-> 0, err |-> "none"]
\* mutation of ResultOf: a server that is not ready is an error like any other
ResultOf_NoDelay(err) == IF err = "none" THEN NoResult ELSE ErrorResult(err)

ResultOf(err) ==
    IF err = "none" THEN NoResult
    ELSE IF err = "notReady" THEN [requeue |-> FALSE, after |-> serverNotReadyDelay, err |-> "none"]
    ELSE ErrorResult(err)


(***************************************************************************)
(* Owned objects and the resource client's write helpers.                  *)
(***************************************************************************)
ResKinds ==
    {"netpol", "service", "initConfig", "serverConfig", "headless", "statefulset",
     "agent", "ingress", "bootstrap", "kubeconfig"}
Absent == <<>>
NoRes == [kind \in ResKinds |-> Absent]

\* controllerutil.CreateOrUpdate: the live object afterwards
CreateOrUpdate(live, desired) == desired
\* Client.Create with IsAlreadyExists tolerated
CreateIfAbsent(live, desired) == IF live = Absent THEN desired ELSE live
\* Client.Delete with IgnoreNotFound
DeleteIfPresent(live) == Absent

\* mutation of ensureNetworkPolicy: a governed namespace keeps what is there
ensureNetworkPolicy_NoDelete(st, live) ==
    IF st.policyName # "" THEN live ELSE CreateOrUpdate(live, <<1>> \o st.clusterCIDR)

\* ensureNetworkPolicy: the standalone NetworkPolicy after the step
ensureNetworkPolicy(st, live) ==
    IF st.policyName # "" THEN DeleteIfPresent(live)
    ELSE CreateOrUpdate(live, <<1>> \o st.clusterCIDR)

\* ensureIngress: the Ingress after the step
ensureIngress(c, live) ==
    IF ~c.spec.expose THEN DeleteIfPresent(live) ELSE CreateOrUpdate(live, <<1>>)

\* ensureAgent: the ports handed to the agent
AgentPorts(c, k) ==
    IF c.spec.mode = VirtualClusterMode THEN <<>>
    ELSE IF c.spec.mirrorHostNodes
    THEN <<AllocatedKubeletPort(k), AllocatedWebhookPort(k)>>
    ELSE <<defaultKubeletPort, defaultWebhookPort>>


\* the role-binding subject of the Cluster's agent service account
SubjectOf(k) == k
Contains(subjects, x) == \E i \in 1..Len(subjects) : subjects[i] = x
\* mutation of Without: the removal leaves the binding as it is
Without_Nothing(subjects, x) == subjects

RECURSIVE Without(_, _)
Without(subjects, x) ==
    IF subjects = <<>> THEN <<>>
    ELSE IF Head(subjects) = x THEN Without(Tail(subjects), x)
    ELSE <<Head(subjects)>> \o Without(Tail(subjects), x)

(***************************************************************************)
(* reconcile: the ordered steps of one convergence.  env holds what the    *)
(* pass reads from outside the Cluster: label (namespace policy label),    *)
(* allowedMode (of the named policy), fail (the call that fails, "none"    *)
(* for no failure), gitVersion (host version), answer (host answers to the *)
(* service-range lookup), serverReady (the server answers the bootstrap    *)
(* request), rb (per role binding: "ok", "getFails" or "updateFails") and  *)
(* defaults (the parts outside the source at hand default the spec).       *)
(***************************************************************************)
Steps ==
    <<"nsGet", "policyGet", "validate", "serverVersion", "token", "netpol", "service",
      "initConfig", "serverConfig", "headless", "statefulset", "kubeletPort",
      "webhookPort", "agent", "ingress", "bootstrap", "kubeconfig", "bind">>
StepIndex(s) == CHOOSE i \in 1..Len(Steps) : Steps[i] = s
Failures == {"none"} \cup ({Steps[i] : i \in 1..Len(Steps)} \ {"validate", "bind"})
BindOutcomes == {"ok", "getFails", "updateFails"}

\* the step is on the path of this pass
Executes(c, env, s) ==
    IF s \in {"policyGet", "validate"} THEN env.label # ""
    ELSE IF s = "serverVersion" THEN NeedsHostVersion(c)
    ELSE IF s \in {"kubeletPort", "webhookPort"}
    THEN c.spec.mode # VirtualClusterMode /\ c.spec.mirrorHostNodes
    ELSE TRUE

\* mutation of bindClusterRole: the subject is appended without looking
bindClusterRole_AlwaysAppend(subjects, x, outcome) ==
    IF outcome = "ok" THEN Append(subjects, x) ELSE subjects

\* bindClusterRoles, lines 646-665: the subjects of one binding afterwards
bindClusterRole(subjects, x, outcome) ==
    IF outcome = "ok" /\ ~Contains(subjects, x) THEN Append(subjects, x) ELSE subjects

\* mutation of bindClusterRoles: the loop ends at the first binding whose
\* Get or Update fails
bindClusterRoles_ShortCircuit(bs, x, rb) ==
    [b \in RoleBindings |->
        IF \E i, j \in 1..Len(clusterRoles) :
              /\ i < j /\ clusterRoles[j] = b
              /\ \/ rb[clusterRoles[i]] = "getFails"
                 \/ rb[clusterRoles[i]] = "updateFails" /\ ~Contains(bs[clusterRoles[i]], x)
        THEN bs[b]
        ELSE bindClusterRole(bs[b], x, rb[b])]

\* bindClusterRoles, lines 641-669: every binding is gone through in turn
bindClusterRoles(bs, x, rb) ==
    [b \in RoleBindings |-> bindClusterRole(bs[b], x, rb[b])]

\* bindClusterRoles: the bindings whose Get or Update failed
bindFailures(bs, x, rb) ==
    {b \in RoleBindings :
        \/ rb[b] = "getFails"
        \/ rb[b] = "updateFails" /\ ~Contains(bs[b], x)}

\* the error the step returns, "none" when it succeeds
StepError(c, k, env, bs, s) ==
    IF ~Executes(c, env, s) THEN "none"
    ELSE IF s = "validate" THEN validate(c, k, env.allowedMode)
    ELSE IF s = "bind"
    THEN IF bindFailures(bs, SubjectOf(k), env.rb) # {} THEN "io" ELSE "none"
    ELSE IF env.fail = s THEN "io"
    ELSE IF s = "bootstrap" /\ ~env.serverReady THEN "notReady"
    ELSE "none"

\* index of the first step that returns an error, Len(Steps) + 1 when none does
ErrorIndex(c, k, env, bs) ==
    LET failing == {i \in 1..Len(Steps) : StepError(c, k, env, bs, Steps[i]) # "none"}
    IN IF failing = {} THEN Len(Steps) + 1
       ELSE CHOOSE i \in failing : \A j \in failing : i <= j

\* mutation of StepDone: a step takes effect whether or not an earlier one failed
StepDone_Regardless(c, env, s, ei) == Executes(c, env, s)

\* the step at index i ran, and it returned no error when i is before ei
StepRan(c, env, s, ei) == Executes(c, env, s) /\ StepIndex(s) <= ei
StepDone(c, env, s, ei) == Executes(c, env, s) /\ StepIndex(s) < ei

\* reconcile, lines 226-337, given the index ei of its first failing step:
\* [status, res, bindings, err, errStep] as it leaves the Cluster status, the
\* owned objects r and the role bindings bs
reconcileUpTo(c, k, env, r, bs, ei) ==
    LET st0 == c.status
        st1 == IF StepDone(c, env, "nsGet", ei)
               THEN [st0 EXCEPT !.policyName = env.label] ELSE st0
        st2 == IF StepDone(c, env, "serverVersion", ei)
               THEN [st1 EXCEPT !.hostVersion = K3sVersionOf(env.gitVersion)] ELSE st1
        st3 == IF StepDone(c, env, "token", ei)
               THEN [st2 EXCEPT !.clusterCIDR = ResolveClusterCIDR(c),
                                !.serviceCIDR = ResolveServiceCIDR(c, env.answer)]
               ELSE st2
        st4 == IF StepDone(c, env, "kubeletPort", ei)
               THEN [st3 EXCEPT !.kubeletPort = AllocatedKubeletPort(k)] ELSE st3
        st5 == IF StepDone(c, env, "webhookPort", ei)
               THEN [st4 EXCEPT !.webhookPort = AllocatedWebhookPort(k)] ELSE st4
        after(kind) ==
            IF kind = "netpol" THEN ensureNetworkPolicy(st5, r[kind])
            ELSE IF kind = "service" THEN CreateOrUpdate(r[kind], <<1>>)
            ELSE IF kind \in {"initConfig", "serverConfig", "headless"}
            THEN CreateIfAbsent(r[kind], <<1>>)
            ELSE IF kind = "statefulset" THEN CreateOrUpdate(r[kind], <<1>>)
            ELSE IF kind = "agent" THEN CreateOrUpdate(r[kind], <<1>> \o AgentPorts(c, k))
            ELSE IF kind = "ingress" THEN ensureIngress(c, r[kind])
            ELSE CreateOrUpdate(r[kind], <<1>>)
    IN [status |-> st5,
        spec |-> IF StepDone(c, env, "token", ei) /\ env.defaults
                 THEN Defaulting(c.spec) ELSE c.spec,
        res |-> [kind \in ResKinds |->
                    IF StepDone(c, env, kind, ei) THEN after(kind) ELSE r[kind]],
        bindings |-> IF StepRan(c, env, "bind", ei)
                     THEN bindClusterRoles(bs, SubjectOf(k), env.rb) ELSE bs,
        err |-> IF ei > Len(Steps) THEN "none" ELSE StepError(c, k, env, bs, Steps[ei]),
        errStep |-> IF ei > Len(Steps) THEN "none" ELSE Steps[ei]]

reconcile(c, k, env, r, bs) ==
    CHOOSE rec \in {reconcileUpTo(c, k, env, r, bs, ei) : ei \in {ErrorIndex(c, k, env, bs)}} :
        TRUE

\* the owned objects and role bindings a pass changed
Written(r0, r1) == {kind \in ResKinds : r0[kind] # r1[kind]}
Rebound(b0, b1) == {b \in RoleBindings : b0[b] # b1[b]}

(***************************************************************************)
(* State.                                                                  *)
(***************************************************************************)
\* no namespace event has been delivered
NoEvent == [seq |-> 0, kind |-> "none", ns |-> "", old |-> "", new |-> ""]

\* the history of a Cluster: an outside change ends the quiet after a
\* successful convergence; a pass is counted when it loads the Cluster
NoHistory == [passes |-> 0, settled |-> FALSE]
Unsettled(ks) ==
    [k \in DOMAIN hist |-> IF k \in ks THEN [hist[k] EXCEPT !.settled = FALSE] ELSE hist[k]]
Ordinal(k) == IF hist[k].passes < PassCap THEN hist[k].passes + 1 ELSE PassCap
Started(k) == [hist EXCEPT ![k].passes = Ordinal(k)]
Settled(k, ok) == [hist EXCEPT ![k].settled = ok]

IdlePass ==
    [pc |-> "idle", key |-> NoKey, orig |-> NoCluster, obj |-> NoCluster,
     branch |-> "none", label |-> "", seen |-> EmptyText, err |-> "none", errStep |-> "none",
     writes |-> {}, rejected |-> FALSE, result |-> NoResult,
     n |-> 0, again |-> FALSE, faulty |-> FALSE, rb |-> <<>>, cleaned |-> {},
     at |-> 0, copy |-> <<>>]

Init ==
    /\ clusters = [k \in Keys |-> NoCluster]
    /\ fresh = [k \in Keys |-> {}]
    /\ nsLabel \in [Namespaces -> {""} \cup PolicyNames]
    /\ policies = [p \in PolicyNames |-> VirtualClusterMode]
    /\ res = [k \in Keys |-> NoRes]
    /\ bindings = [b \in RoleBindings |-> <<>>]
    /\ queue = {}
    /\ dirty = {}
    /\ pass = [w \in Workers |-> IdlePass]
    /\ host \in [gitVersion : {<<"v1.31.0", "+", "k3s1">>}, answer : HostAnswers]
    /\ serverUp = {}
    /\ events = 0
    /\ nsEvent = NoEvent
    /\ hist = [k \in Keys |-> NoHistory]

Processing == {pass[w].key : w \in {x \in DOMAIN pass : pass[x].pc # "idle"}}

\* mutation of Enqueue: a request is queued although its Cluster is in flight
Enqueue_NoDedup(ks) ==
    /\ queue' = queue \cup ks
    /\ dirty' = dirty

\* workqueue Add: an identity being processed is marked dirty instead of queued
Enqueue(ks) ==
    /\ queue' = queue \cup (ks \ Processing)
    /\ dirty' = dirty \cup (ks \cap Processing)

(***************************************************************************)
(* The users of the API and the platform.                                  *)
(***************************************************************************)
CreateCluster(k, s, ph) ==
    /\ \A j \in DOMAIN clusters : ~clusters[j].exists
    /\ clusters' = [clusters EXCEPT ![k] =
            [exists |-> TRUE, deleting |-> FALSE, finalizers |-> {}, spec |-> s,
             status |-> [ZeroStatus EXCEPT !.phase = ph]]]
    /\ fresh' = [fresh EXCEPT ![k] = {}]
    /\ hist' = [hist EXCEPT ![k] = NoHistory]
    /\ Enqueue({k})
    /\ UNCHANGED <<nsLabel, policies, nsEvent, res, bindings, pass, host, serverUp, events>>

\* a delete request: with a finalizer the object is only marked, without one
\* it is removed and its owned objects are garbage-collected
DeleteCluster(k) ==
    /\ clusters[k].exists /\ ~clusters[k].deleting
    /\ events < MaxEvents
    /\ events' = events + 1
    /\ IF clusters[k].finalizers # {}
       THEN /\ clusters' = [clusters EXCEPT ![k].deleting = TRUE]
            /\ hist' = Unsettled({k})
            /\ UNCHANGED <<res, serverUp>>
       ELSE /\ clusters' = [clusters EXCEPT ![k] = NoCluster]
            /\ res' = [res EXCEPT ![k] = NoRes]
            /\ serverUp' = serverUp \ {k}
            /\ hist' = [hist EXCEPT ![k] = NoHistory]
    /\ fresh' = [fresh EXCEPT ![k] = {}]
    /\ Enqueue({k})
    /\ UNCHANGED <<nsLabel, policies, nsEvent, bindings, pass, host>>

\* a user changes the address ranges of the spec
EditSpec(k, cc, sc) ==
    /\ clusters[k].exists
    /\ events < MaxEvents
    /\ events' = events + 1
    /\ <<cc, sc>> # <<clusters[k].spec.clusterCIDR, clusters[k].spec.serviceCIDR>>
    /\ clusters' = [clusters EXCEPT ![k].spec.clusterCIDR = cc, ![k].spec.serviceCIDR = sc]
    /\ fresh' = [fresh EXCEPT ![k] = {}]
    /\ hist' = Unsettled({k})
    /\ Enqueue({k})
    /\ UNCHANGED <<nsLabel, policies, nsEvent, res, bindings, pass, host, serverUp>>

\* namespaceEventHandler, UpdateFunc: the requests enqueued for a namespace
\* update; none when the label did not change or the Clusters cannot be listed
namespaceEventHandler(ns, oldLabel, newLabel, listFails) ==
    IF oldLabel = newLabel THEN {}
    ELSE IF listFails THEN {}
    ELSE {k \in DOMAIN clusters : NsOf(k) = ns /\ clusters[k].exists}

\* namespaceEventHandler, lines 113-144: CreateFunc and DeleteFunc are empty,
\* UpdateFunc is the handler above
namespaceFuncs(kind, ns, oldLabel, newLabel, listFails) ==
    IF kind = "update" THEN namespaceEventHandler(ns, oldLabel, newLabel, listFails) ELSE {}

LabelNamespace(ns, v, listFails) ==
    /\ v # nsLabel[ns]
    /\ events < MaxEvents
    /\ events' = events + 1
    /\ nsLabel' = [nsLabel EXCEPT ![ns] = v]
    /\ Enqueue(namespaceEventHandler(ns, nsLabel[ns], v, listFails))
    /\ hist' = Unsettled({k \in DOMAIN hist : NsOf(k) = ns})
    /\ UNCHANGED <<clusters, fresh, policies, nsEvent, res, bindings, pass, host, serverUp>>

\* the host cluster is upgraded: it reports another version from now on
UpgradeHost(gv) ==
    /\ gv # host.gitVersion
    /\ events < MaxEvents
    /\ events' = events + 1
    /\ host' = [host EXCEPT !.gitVersion = gv]
    /\ hist' = Unsettled(DOMAIN hist)
    /\ UNCHANGED <<clusters, fresh, nsLabel, policies, nsEvent, res, bindings, queue, dirty, pass,
                   serverUp>>

\* the server workload of a Cluster comes up; the stateful set is watched, so
\* its owner is enqueued
ServerStarts(k) ==
    /\ res[k]["statefulset"] # Absent
    /\ k \notin serverUp
    /\ serverUp' = serverUp \cup {k}
    /\ hist' = Unsettled({k})
    /\ Enqueue({k})
    /\ UNCHANGED <<clusters, fresh, nsLabel, policies, nsEvent, res, bindings, pass, host, events>>

(***************************************************************************)
(* One reconciliation pass of a worker.                                    *)
(***************************************************************************)
\* mutation of Accepted: a write is stored whatever happened since the load
Accepted_Always(w, k) == TRUE

\* a version-checked write of worker w to the stored Cluster k is accepted
Accepted(w, k) == w \in fresh[k]

Done(p, result) == [p EXCEPT !.pc = "done", !.result = result]

\* Reconcile, lines 153-156: take a request and load the Cluster
Load(w, k) ==
    /\ pass[w].pc = "idle"
    /\ k \in queue
    /\ queue' = queue \ {k}
    /\ IF clusters[k].exists
       THEN /\ pass' = [pass EXCEPT ![w] =
                    [IdlePass EXCEPT !.pc = "loaded", !.key = k, !.n = Ordinal(k),
                                     !.orig = clusters[k], !.obj = clusters[k]]]
            /\ fresh' = [fresh EXCEPT ![k] = @ \cup {w}]
            /\ hist' = Started(k)
       ELSE /\ pass' = [pass EXCEPT ![w] =
                    [IdlePass EXCEPT !.pc = "done", !.key = k, !.branch = "absent"]]
            /\ UNCHANGED <<fresh, hist>>
    /\ UNCHANGED <<clusters, nsLabel, policies, nsEvent, res, bindings, dirty, host, serverUp,
                   events>>

\* finalizeCluster: best-effort removal of the subject from the role bindings
\* (cleaned: the bindings it got to within the timeout), then the finalizer
\* is removed and persisted; with no finalizer left the platform completes
\* the deletion
Finalize(w, cleaned) ==
    LET p == pass[w]
        k == p.key
        bs == [b \in RoleBindings |->
                IF b \in cleaned THEN Without(bindings[b], SubjectOf(k)) ELSE bindings[b]]
        fin == p.obj.finalizers \ {clusterFinalizerName}
        update == fin # p.obj.finalizers
        log == [p EXCEPT !.branch = "finalize", !.obj.finalizers = fin,
                         !.cleaned = cleaned]
    IN /\ p.pc = "loaded"
       /\ Branch(p.obj) = "finalize"
       /\ cleaned # RoleBindings => events < MaxEvents
       /\ events' = IF cleaned # RoleBindings THEN events + 1 ELSE events
       /\ bindings' = bs
       /\ IF update /\ ~Accepted(w, k)
          THEN /\ UNCHANGED <<clusters, res, fresh, dirty, serverUp>>
               /\ hist' = Settled(k, FALSE)
               /\ pass' = [pass EXCEPT ![w] =
                    Done([log EXCEPT !.rejected = TRUE, !.writes = Rebound(bindings, bs)],
                         ErrorResult("conflict"))]
          ELSE /\ IF fin = {}
                  THEN /\ clusters' = [clusters EXCEPT ![k] = NoCluster]
                       /\ res' = [res EXCEPT ![k] = NoRes]
                       /\ serverUp' = serverUp \ {k}
                       /\ fresh' = [fresh EXCEPT ![k] = {}]
                       /\ hist' = [hist EXCEPT ![k] = NoHistory]
                  ELSE /\ clusters' = [clusters EXCEPT ![k].finalizers = fin]
                       /\ fresh' = IF update THEN [fresh EXCEPT ![k] = {w}] ELSE fresh
                       /\ hist' = Settled(k, FALSE)
                       /\ UNCHANGED <<res, serverUp>>
               /\ dirty' = IF update \/ fin = {} THEN dirty \cup {k} ELSE dirty
               /\ pass' = [pass EXCEPT ![w] =
                    Done([log EXCEPT !.writes = Rebound(bindings, bs)
                                       \cup (IF update THEN {"cluster"} ELSE {})],
                         NoResult)]
       /\ UNCHANGED <<nsLabel, policies, nsEvent, queue, host>>

\* Reconcile, lines 163-178: the initial status
SetInitialStatus(w) ==
    LET p == pass[w]
        k == p.key
        st == InitialStatus(p.obj.status)
    IN /\ p.pc = "loaded"
       /\ Branch(p.obj) = "init"
       /\ IF Accepted(w, k)
          THEN /\ clusters' = [clusters EXCEPT ![k].status = st]
               /\ fresh' = [fresh EXCEPT ![k] = {w}]
               /\ dirty' = dirty \cup {k}
               /\ pass' = [pass EXCEPT ![w] =
                    Done([p EXCEPT !.branch = "init", !.obj.status = st, !.writes = {"status"}],
                         RequeueResult)]
          ELSE /\ UNCHANGED <<clusters, fresh, dirty>>
               /\ pass' = [pass EXCEPT ![w] =
                    Done([p EXCEPT !.branch = "init", !.obj.status = st, !.rejected = TRUE],
                         ErrorResult("conflict"))]
       /\ hist' = Settled(k, FALSE)
       /\ UNCHANGED <<nsLabel, policies, nsEvent, res, bindings, queue, host, serverUp, events>>

\* Reconcile, lines 180-187: the finalizer
EnsureFinalizer(w) ==
    LET p == pass[w]
        k == p.key
        fin == AddFinalizer(p.obj)
    IN /\ p.pc = "loaded"
       /\ Branch(p.obj) = "finalizer"
       /\ IF Accepted(w, k)
          THEN /\ clusters' = [clusters EXCEPT ![k].finalizers = fin]
               /\ fresh' = [fresh EXCEPT ![k] = {w}]
               /\ dirty' = dirty \cup {k}
               /\ pass' = [pass EXCEPT ![w] =
                    Done([p EXCEPT !.branch = "finalizer", !.obj.finalizers = fin, !.writes = {"cluster"}],
                         RequeueResult)]
          ELSE /\ UNCHANGED <<clusters, fresh, dirty>>
               /\ pass' = [pass EXCEPT ![w] =
                    Done([p EXCEPT !.branch = "finalizer", !.obj.finalizers = fin, !.rejected = TRUE],
                         ErrorResult("conflict"))]
       /\ hist' = Settled(k, FALSE)
       /\ UNCHANGED <<nsLabel, policies, nsEvent, res, bindings, queue, host, serverUp, events>>

\* the services and the stateful set are watched: a write to one of them
\* enqueues the owning Cluster
OwnedWatched == {"service", "headless", "statefulset"}

\* a call of the pass fails
Faulty(env) == env.fail # "none" \/ \E b \in RoleBindings : env.rb[b] # "ok"

\* Reconcile, lines 189-216, with reconcileCluster, lines 219-224
ConvergeWith(w, env, rec) ==
    LET p == pass[w]
        k == p.key
        c == p.obj
        converged == [c EXCEPT !.status = updateStatus(rec.status, rec.err), !.spec = rec.spec]
        writeStatus == StatusChanged(p.orig, converged)
        statusFails == writeStatus /\ ~Accepted(w, k)
        \* an accepted Status().Update decodes the stored object into the one
        \* in memory: what convergence did to the spec in memory is gone
        obj == IF writeStatus /\ ~statusFails
               THEN [converged EXCEPT !.spec = clusters[k].spec] ELSE converged
        writeSpec == ~statusFails /\ WritesSpec(p.orig, obj, rec.err)
        specFails == writeSpec /\ ~writeStatus /\ ~Accepted(w, k)
        written == (IF writeStatus /\ ~statusFails THEN {"status"} ELSE {})
                   \cup (IF writeSpec /\ ~specFails THEN {"cluster"} ELSE {})
        owned == Written(res[k], rec.res)
    IN /\ p.pc = "loaded"
       /\ Branch(c) = "converge"
       /\ events' = IF Faulty(env) THEN events + 1 ELSE events
       /\ res' = [res EXCEPT ![k] = rec.res]
       /\ bindings' = rec.bindings
       /\ clusters' = [clusters EXCEPT
                ![k].status = IF "status" \in written THEN obj.status ELSE @,
                ![k].spec = IF "cluster" \in written THEN obj.spec ELSE @]
       /\ fresh' = IF written # {} THEN [fresh EXCEPT ![k] = {w}] ELSE fresh
       /\ dirty' = IF written # {} \/ owned \cap OwnedWatched # {}
                   THEN dirty \cup {k} ELSE dirty
       /\ pass' = [pass EXCEPT ![w] =
                Done([p EXCEPT !.branch = "converge",
                               !.label = env.label,
                               !.seen = env.gitVersion, 
                               !.again = hist[k].settled,
                               !.faulty = Faulty(env),
                               !.rb = env.rb,
                               !.obj = obj,
                               !.err = rec.err,
                               !.errStep = rec.errStep,
                               !.writes = owned \cup Rebound(bindings, rec.bindings)
                                          \cup written,
                               !.rejected = statusFails \/ specFails],
                     IF statusFails THEN ErrorResult("conflict")
                     ELSE IF rec.err # "none" THEN ResultOf(rec.err)
                     ELSE IF specFails THEN ErrorResult("conflict")
                     ELSE ResultOf(rec.err))]
       /\ hist' = Settled(k, rec.err = "none" /\ Accepted(w, k))
       /\ UNCHANGED <<nsLabel, policies, nsEvent, queue, host, serverUp>>

Converge(w, env) ==
    \E rec \in {reconcile(pass[w].obj, pass[w].key, env, res[pass[w].key], bindings)} :
        ConvergeWith(w, env, rec)

\* the work queue after the pass returned: Done, and AddRateLimited or AddAfter
Finish(w) ==
    LET p == pass[w]
        k == p.key
        again == p.result.requeue \/ p.result.after > 0 \/ p.result.err # "none"
    IN /\ p.pc = "done"
       /\ pass' = [pass EXCEPT ![w] = IdlePass]
       /\ queue' = IF again \/ k \in dirty THEN queue \cup {k} ELSE queue
       /\ dirty' = dirty \ {k}
       /\ UNCHANGED <<clusters, fresh, nsLabel, policies, nsEvent, res, bindings, host, serverUp,
                      events, hist>>

\* what a convergence of worker w can meet outside the Cluster
Environments(w) ==
    LET ns == NsOf(pass[w].key)
        base(fails, rbs) ==
            [label : {nsLabel[ns]},
             allowedMode : {IF nsLabel[ns] = "" THEN "" ELSE policies[nsLabel[ns]]},
             fail : fails,
             gitVersion : {host.gitVersion},
             answer : {host.answer},
             serverReady : {pass[w].key \in serverUp},
             rb : rbs,
             defaults : {FALSE}]
        allOK == [b \in RoleBindings |-> "ok"]
    IN base({"none"}, {allOK})
       \cup (IF events < MaxEvents
             THEN base(Failures \ {"none"}, {allOK})
                  \cup base({"none"}, [RoleBindings -> BindOutcomes] \ {allOK})
             ELSE {})

Next ==
    \/ \E k \in Keys, s \in Specs, ph \in {"", ClusterUnknown} : CreateCluster(k, s, ph)
    \/ \E k \in Keys : DeleteCluster(k)
    \/ \E k \in Keys, cc \in SpecCIDRs, sc \in SpecCIDRs : EditSpec(k, cc, sc)
    \/ \E ns \in Namespaces, v \in {""} \cup PolicyNames, listFails \in BOOLEAN :
          LabelNamespace(ns, v, listFails)
    \/ \E gv \in GitVersions : UpgradeHost(gv)
    \/ \E k \in Keys : ServerStarts(k)
    \/ \E w \in Workers, k \in Keys : Load(w, k)
    \/ \E w \in Workers, cleaned \in SUBSET RoleBindings : Finalize(w, cleaned)
    \/ \E w \in Workers : SetInitialStatus(w)
    \/ \E w \in Workers : EnsureFinalizer(w)
    \/ \E w \in Workers : pass[w].pc = "loaded" /\ \E env \in Environments(w) : Converge(w, env)
    \/ \E w \in Workers : Finish(w)

Spec == Init /\ [][Next]_vars

(***************************************************************************)
(* A pool of workers on several Clusters at once: the controller starts    *)
(* with Clusters already stored that earlier passes have initialised,      *)
(* every one of them enqueued, and watch events keep arriving while passes *)
(* are in flight.  No call fails and no server has come up yet.            *)
(***************************************************************************)
PoolWorkers == {"w1", "w2"}
PoolNamespaces == {"ns1", "ns2"}
PoolKeys == {<<"ns1", "alpha">>, <<"ns1", "beta">>, <<"ns2", "alpha">>}
PoolCluster ==
    [exists |-> TRUE, deleting |-> FALSE, finalizers |-> {clusterFinalizerName},
     spec |-> [ZeroSpec EXCEPT !.mode = VirtualClusterMode, !.expose = TRUE],
     status |-> InitialStatus(ZeroStatus)]

InitPool ==
    /\ clusters \in {f \in [PoolKeys -> {NoCluster, PoolCluster}] : f[<<"ns1", "alpha">>].exists}
    /\ fresh = [k \in PoolKeys |-> {}]
    /\ nsLabel = [ns \in PoolNamespaces |-> IF ns = "ns1" THEN "p1" ELSE ""]
    /\ policies = [p \in PolicyNames |-> VirtualClusterMode]
    /\ res = [k \in PoolKeys |-> NoRes]
    /\ bindings = [b \in RoleBindings |-> <<>>]
    /\ queue = {k \in PoolKeys : clusters[k].exists}
    /\ dirty = {}
    /\ pass = [w \in PoolWorkers |-> IdlePass]
    /\ host = [gitVersion |-> <<"v1.31.0", "+", "k3s1">>,
               answer |-> [hint |-> EmptyText, listFails |-> FALSE, flag |-> EmptyText]]
    /\ serverUp = {}
    /\ events = 0
    /\ nsEvent = NoEvent
    /\ hist = [k \in PoolKeys |-> [passes |-> PassCap, settled |-> FALSE]]

\* a watch event for a stored Cluster (a resync, an update that changes
\* nothing modelled): its identity is enqueued
Notify(k) ==
    /\ clusters[k].exists
    /\ events < MaxEvents
    /\ events' = events + 1
    /\ Enqueue({k})
    /\ UNCHANGED <<clusters, fresh, nsLabel, policies, res, bindings, pass, host, serverUp,
                   nsEvent, hist>>

\* a namespace event reaches the handler: the namespace is listed again
\* ("create"), updated to label value v, which may be the value it has, or
\* deleted once no Cluster is left in it; listFails: the handler cannot list
\* the Clusters of the namespace
NamespaceEvent(kind, ns, v, listFails) ==
    LET old == IF kind = "create" THEN "" ELSE nsLabel[ns]
        new == IF kind = "delete" THEN "" ELSE v
    IN /\ events < MaxEvents
       /\ kind = "create" => v = nsLabel[ns]
       /\ listFails => (kind = "update" /\ v # nsLabel[ns])
       /\ kind = "delete" => \A k \in DOMAIN clusters : NsOf(k) = ns => ~clusters[k].exists
       /\ events' = events + 1
       /\ nsLabel' = [nsLabel EXCEPT ![ns] = new]
       /\ nsEvent' = [seq |-> events + 1, kind |-> kind, ns |-> ns, old |-> old, new |-> new]
       /\ Enqueue(namespaceFuncs(kind, ns, old, new, listFails))
       /\ hist' = Unsettled({k \in DOMAIN hist : NsOf(k) = ns})
       /\ UNCHANGED <<clusters, fresh, policies, res, bindings, pass, host, serverUp>>

\* what a convergence of worker w meets when no call fails
CalmEnvironment(w) ==
    LET ns == NsOf(pass[w].key)
    IN [label |-> nsLabel[ns],
        allowedMode |-> IF nsLabel[ns] = "" THEN "" ELSE policies[nsLabel[ns]],
        fail |-> "none",
        gitVersion |-> host.gitVersion,
        answer |-> host.answer,
        serverReady |-> pass[w].key \in serverUp,
        rb |-> [b \in RoleBindings |-> "ok"],
        defaults |-> FALSE]

NextPool ==
    \/ \E k \in PoolKeys : Notify(k)
    \/ \E kind \in {"create", "update", "delete"}, ns \in PoolNamespaces,
          v \in {""} \cup PolicyNames, listFails \in BOOLEAN :
              NamespaceEvent(kind, ns, v, listFails)
    \/ \E w \in PoolWorkers, k \in PoolKeys : Load(w, k)
    \/ \E w \in PoolWorkers : pass[w].pc = "loaded" /\ Converge(w, CalmEnvironment(w))
    \/ \E w \in PoolWorkers : Finish(w)

SpecPool == InitPool /\ [][NextPool]_vars

(***************************************************************************)
(* Properties of the reconciliation pass.                                  *)
(***************************************************************************)
\* the owned objects and the role bindings, as entries of a pass's writes
OwnedWrites == ResKinds \cup RoleBindings

\* C1: a pass that loaded a non-deleting Cluster whose phase is unset or
\* "Unknown" sets the phase to Provisioning and the Ready condition to
\* False/Provisioning, writes the status, asks for immediate re-processing
\* and does nothing else: the finalizer, the spec, the owned objects and the
\* role bindings are left alone.  (If the status write is rejected as stale,
\* nothing is written and the pass ends with the write's error.)
C1_InitialStatusPass ==
    \A w \in Workers :
        LET p == pass[w]
            k == p.key
        IN (/\ p.pc = "done"
            /\ p.orig.exists
            /\ ~p.orig.deleting
            /\ p.orig.status.phase \in {"", ClusterUnknown}) =>
                /\ p.branch = "init"
                /\ p.obj.status = [p.orig.status EXCEPT !.phase = ClusterProvisioning,
                                                         !.ready = ReadyProvisioning]
                /\ p.obj.finalizers = p.orig.finalizers
                /\ p.obj.spec = p.orig.spec
                /\ IF p.rejected
                   THEN p.writes = {} /\ p.result.err # "none"
                   ELSE p.writes = {"status"} /\ p.result = RequeueResult
                /\ (~p.rejected /\ w \in fresh[k]) =>
                       /\ clusters[k].status = p.obj.status
                       /\ clusters[k].finalizers = p.orig.finalizers

C1_Witness ==
    \E w \in Workers :
        /\ pass[w].pc = "done"
        /\ pass[w].branch = "init"
        /\ pass[w].orig.status.phase = ClusterUnknown
        /\ pass[w].writes = {"status"}
        /\ clusters[pass[w].key].status.phase = ClusterProvisioning

\* C2: a pass that loaded a non-deleting Cluster with its phase set and
\* without the finalizer adds the finalizer, writes the Cluster, asks for
\* immediate re-processing and runs no convergence; and no pass that loaded
\* the Cluster without the finalizer creates or updates an owned object or a
\* role binding.  (If the write is rejected as stale, nothing is written and
\* the pass ends with the write's error.)
C2_FinalizerPass ==
    \A w \in Workers :
        LET p == pass[w]
            k == p.key
        IN (/\ p.pc = "done"
            /\ p.orig.exists
            /\ clusterFinalizerName \notin p.orig.finalizers) =>
                /\ p.writes \cap OwnedWrites = {}
                /\ (~p.orig.deleting /\ p.orig.status.phase \notin {"", ClusterUnknown}) =>
                       /\ p.branch = "finalizer"
                       /\ p.obj.finalizers = p.orig.finalizers \cup {clusterFinalizerName}
                       /\ p.obj.status = p.orig.status
                       /\ p.obj.spec = p.orig.spec
                       /\ IF p.rejected
                          THEN p.writes = {} /\ p.result.err # "none"
                          ELSE p.writes = {"cluster"} /\ p.result = RequeueResult
                       /\ (~p.rejected /\ w \in fresh[k]) =>
                              clusterFinalizerName \in clusters[k].finalizers

C2_Witness ==
    \E w \in Workers :
        /\ pass[w].pc = "done"
        /\ pass[w].branch = "finalizer"
        /\ pass[w].writes = {"cluster"}
        /\ clusterFinalizerName \in clusters[pass[w].key].finalizers
        /\ res[pass[w].key] = NoRes

\* C3: whenever an owned object of a stored Cluster exists, the Cluster
\* carries the finalizer; and the finalizer leaves a Cluster only in a
\* finalization pass of that Cluster, which is one marked for deletion.
C3_FinalizerGuardsOwned ==
    /\ [](\A k \in Keys :
            (clusters[k].exists /\ res[k] # NoRes) =>
                clusterFinalizerName \in clusters[k].finalizers)
    /\ [][\A k \in Keys :
            (/\ clusterFinalizerName \in clusters[k].finalizers
             /\ clusterFinalizerName \notin clusters'[k].finalizers) =>
                /\ clusters[k].deleting
                /\ \E w \in Workers :
                      /\ pass[w].pc = "loaded"
                      /\ pass[w].key = k
                      /\ pass'[w].pc = "done"
                      /\ pass'[w].branch = "finalize"]_vars

C3_Witness ==
    \E w \in Workers :
        /\ pass[w].pc = "done"
        /\ pass[w].branch = "finalize"
        /\ clusterFinalizerName \in pass[w].orig.finalizers
        /\ "cluster" \in pass[w].writes
        /\ ~clusters[pass[w].key].exists
        /\ res[pass[w].key] = NoRes

\* C4: once both address ranges in the status of a Cluster are non-empty, a
\* convergence pass run while the spec names a different address range leaves
\* the address ranges of the stored status as they were.
C4_StatusCIDRsFrozen ==
    \A w \in Workers :
        LET p == pass[w]
            k == p.key
        IN (/\ p.pc = "done"
            /\ p.branch = "converge"
            /\ p.orig.status.clusterCIDR # EmptyText
            /\ p.orig.status.serviceCIDR # EmptyText
            /\ \/ p.orig.spec.clusterCIDR # p.orig.status.clusterCIDR
               \/ p.orig.spec.serviceCIDR # p.orig.status.serviceCIDR
            /\ w \in fresh[k]) =>
                /\ clusters[k].status.clusterCIDR = p.orig.status.clusterCIDR
                /\ clusters[k].status.serviceCIDR = p.orig.status.serviceCIDR

\* C5: the host version in the status of a Cluster is written at most once:
\* it becomes non-empty only while the spec names no version, and once it is
\* non-empty no step changes it, whatever version the host reports.
C5_HostVersionWrittenOnce ==
    [][\A k \in Keys :
        (clusters[k].exists /\ clusters'[k].exists) =>
            /\ clusters[k].status.hostVersion # EmptyText =>
                   clusters'[k].status.hostVersion = clusters[k].status.hostVersion
            /\ (/\ clusters[k].status.hostVersion = EmptyText
                /\ clusters'[k].status.hostVersion # EmptyText) =>
                   clusters[k].spec.version = EmptyText]_vars

C5_Witness ==
    \E w \in Workers :
        LET p == pass[w]
        IN /\ p.pc = "done"
           /\ p.branch = "converge"
           /\ p.err = "none"
           /\ p.orig.status.hostVersion = <<"v1.31.0", "-k3s1">>
           /\ p.seen = <<"v1.32.0">>
           /\ "status" \in p.writes
           /\ clusters[p.key].status.hostVersion = <<"v1.31.0", "-k3s1">>

\* C6: after the convergence of a pass returned, the status is written if
\* and only if it differs from the snapshot taken before the convergence,
\* whether the convergence succeeded or returned an error; an accepted
\* write stores the status as the convergence left it.  (A write rejected
\* as stale stores nothing and ends the pass with the write's error.)
C6_StatusWrittenIffChanged ==
    \A w \in Workers :
        LET p == pass[w]
            k == p.key
            changed == p.obj.status # p.orig.status
        IN (p.pc = "done" /\ p.branch = "converge") =>
                /\ ("status" \in p.writes) = (changed /\ ~p.rejected)
                /\ p.rejected => (changed /\ p.result.err # "none")
                /\ (changed /\ ~p.rejected /\ w \in fresh[k]) =>
                       clusters[k].status = p.obj.status
                /\ (~changed /\ w \in fresh[k]) => clusters[k].status = p.orig.status

C6_Witness ==
    \E w \in Workers :
        LET p == pass[w]
        IN /\ p.pc = "done"
           /\ p.branch = "converge"
           /\ p.err = "io"
           /\ p.orig.status.hostVersion = EmptyText
           /\ p.obj.status.hostVersion # EmptyText
           /\ "status" \in p.writes
           /\ clusters[p.key].status = p.obj.status

\* C7: a pass whose convergence failed because the server is not ready
\* returns no error and asks for a retry after 10 seconds; a pass whose
\* convergence failed with any other error returns that error, with no
\* delay of its own.  (A pass whose status write is rejected as stale
\* returns the write's error.)
C7_NotReadyIsDelayedRetry ==
    \A w \in Workers :
        LET p == pass[w]
        IN (p.pc = "done" /\ p.branch = "converge") =>
                /\ (p.err = "notReady" /\ ~p.rejected) =>
                       p.result = [requeue |-> FALSE, after |-> 10, err |-> "none"]
                /\ (p.err \notin {"none", "notReady"} /\ ~p.rejected) =>
                       p.result = [requeue |-> FALSE, after |-> 0, err |-> p.err]
                /\ p.rejected =>
                       p.result = [requeue |-> FALSE, after |-> 0, err |-> "conflict"]

C7_Witness ==
    \E w \in Workers :
        LET p == pass[w]
        IN /\ p.pc = "done"
           /\ p.branch = "converge"
           /\ p.err = "notReady"
           /\ p.errStep = "bootstrap"
           /\ p.result.after = serverNotReadyDelay
           /\ p.result.err = "none"

\* C8: in a namespace whose label names a policy, a convergence of a
\* Cluster whose mode is not the policy's allowed mode, or whose name is the
\* reserved name, fails, with a validation error once the namespace and the
\* policy have been read, and the pass writes no owned object and no role
\* binding.
C8_InvalidClusterWritesNothing ==
    \A w \in Workers :
        LET p == pass[w]
            k == p.key
        IN (/\ p.pc = "done"
            /\ p.branch = "converge"
            /\ p.label # ""
            /\ \/ p.orig.spec.mode # policies[p.label]
               \/ NameOf(k) = "system") =>
                /\ p.writes \cap OwnedWrites = {}
                /\ p.err # "none"
                /\ p.errStep \in {"nsGet", "policyGet", "validate"}
                /\ p.errStep = "validate" => p.err = "validation"

C8_Witness ==
    \E w \in Workers :
        LET p == pass[w]
        IN /\ p.pc = "done"
           /\ p.branch = "converge"
           /\ p.label # ""
           /\ p.orig.spec.mode = policies[p.label]
           /\ NameOf(p.key) = ClusterInvalidName
           /\ p.err = "validation"
           /\ res[p.key] = NoRes

\* C9, as claimed: after every convergence pass in a namespace whose label
\* names a policy the Cluster has no standalone network policy; after a
\* successful one in a namespace without such a label it has its network
\* policy and its service.
C9_NoStandalonePolicyAfterEveryPass ==
    \A w \in Workers :
        LET p == pass[w]
            k == p.key
        IN (p.pc = "done" /\ p.branch = "converge") =>
                /\ p.label # "" => res[k]["netpol"] = Absent
                /\ (p.label = "" /\ p.err = "none") =>
                       /\ res[k]["netpol"] = <<1>> \o p.obj.status.clusterCIDR
                       /\ res[k]["service"] # Absent

\* C9, amended: the standalone network policy is gone after every
\* convergence pass in a governed namespace that got past the
\* network-policy step, a successful pass in particular; after a successful
\* pass in a namespace without a policy label the Cluster has its network
\* policy, excepting its own pod range, and its service.
C9_NoStandalonePolicyPastStep ==
    \A w \in Workers :
        LET p == pass[w]
            k == p.key
        IN (p.pc = "done" /\ p.branch = "converge") =>
                /\ (/\ p.label # ""
                    /\ \/ p.err = "none"
                       \/ /\ p.err # "none"
                          /\ StepIndex(p.errStep) > StepIndex("netpol")) =>
                       res[k]["netpol"] = Absent
                /\ (p.label = "" /\ p.err = "none") =>
                       /\ res[k]["netpol"] = <<1>> \o p.obj.status.clusterCIDR
                       /\ res[k]["service"] # Absent

C9_Witness ==
    \E w \in Workers :
        LET p == pass[w]
        IN /\ p.pc = "done"
           /\ p.branch = "converge"
           /\ p.label # ""
           /\ p.err = "none"
           /\ "netpol" \in p.writes
           /\ res[p.key]["netpol"] = Absent
           /\ res[p.key]["service"] # Absent

\* C10: in the stored status of a shared-mode Cluster that mirrors the host
\* nodes the kubelet port and the webhook port are both set or both unset.
C10_PortsSetTogether ==
    \A k \in Keys :
        (/\ clusters[k].exists
         /\ clusters[k].spec.mode = SharedClusterMode
         /\ clusters[k].spec.mirrorHostNodes) =>
            (clusters[k].status.kubeletPort = 0) = (clusters[k].status.webhookPort = 0)

\* C11: for a shared-mode Cluster whose spec names no service range, when
\* the host gives no range hint in the rejection of the probe service and no
\* API-server pod carries the service-range flag, a convergence that gets to
\* the address ranges records 10.43.0.0/16 as the service range of the status.
C11_DefaultServiceCIDR ==
    \A w \in Workers :
        LET p == pass[w]
        IN (/\ p.pc = "done"
            /\ p.branch = "converge"
            /\ p.orig.spec.mode = SharedClusterMode
            /\ p.orig.spec.serviceCIDR = EmptyText
            /\ host.answer = [hint |-> EmptyText, listFails |-> FALSE, flag |-> EmptyText]
            /\ \/ p.err = "none"
               \/ p.err # "none" /\ StepIndex(p.errStep) > StepIndex("token")) =>
                p.obj.status.serviceCIDR = <<10, 43, 0, 0, 16>>

foreignFinalizer == "example.io/other"
AnyKey == <<"ns1", "alpha">>
AnyClusters ==
    [exists : {TRUE}, deleting : BOOLEAN,
     finalizers : SUBSET {clusterFinalizerName, foreignFinalizer},
     spec : Specs,
     status : {[ZeroStatus EXCEPT !.phase = ph] :
                  ph \in {"", ClusterUnknown, ClusterProvisioning, "Running"}}]

InitAny ==
    /\ \E c \in AnyClusters : clusters = [k \in Keys |-> IF k = AnyKey THEN c ELSE NoCluster]
    /\ \E held \in SUBSET RoleBindings :
          bindings = [b \in RoleBindings |->
                         IF b \in held THEN <<SubjectOf(AnyKey)>> ELSE <<>>]
    /\ fresh = [k \in Keys |-> {}]
    /\ nsLabel = [ns \in Namespaces |-> ""]
    /\ policies = [p \in PolicyNames |-> VirtualClusterMode]
    /\ res = [k \in Keys |-> NoRes]
    /\ queue = {AnyKey}
    /\ dirty = {}
    /\ pass = [w \in Workers |-> IdlePass]
    /\ host = [gitVersion |-> <<"v1.31.0", "+", "k3s1">>,
               answer |-> [hint |-> EmptyText, listFails |-> FALSE, flag |-> EmptyText]]
    /\ serverUp = {}
    /\ events = 0
    /\ nsEvent = NoEvent
    /\ hist = [k \in Keys |-> NoHistory]

NextAny ==
    \/ \E k \in Keys, cc \in SpecCIDRs, sc \in SpecCIDRs : EditSpec(k, cc, sc)
    \/ \E w \in Workers, k \in Keys : Load(w, k)
    \/ \E w \in Workers, cleaned \in SUBSET RoleBindings : Finalize(w, cleaned)
    \/ \E w \in Workers : SetInitialStatus(w)
    \/ \E w \in Workers : EnsureFinalizer(w)
    \/ \E w \in Workers : pass[w].pc = "loaded" /\ \E env \in Environments(w) : Converge(w, env)
    \/ \E w \in Workers : Finish(w)

SpecAny == InitAny /\ [][NextAny]_vars

(***************************************************************************)
(* Two Clusters on their way to the role bindings: each has had its first  *)
(* convergence, which created its objects and found the server not ready,  *)
(* and both servers are up by now.  Two workers converge them, calls fail, *)
(* and users delete Clusters.                                              *)
(***************************************************************************)
BindKeys == {<<"ns1", "alpha">>, <<"ns1", "beta">>}
FirstConvergence(k) ==
    reconcile(PoolCluster, k,
              [label |-> "", allowedMode |-> "", fail |-> "none",
               gitVersion |-> <<"v1.31.0", "+", "k3s1">>,
               answer |-> [hint |-> EmptyText, listFails |-> FALSE, flag |-> EmptyText],
               serverReady |-> FALSE, rb |-> [b \in RoleBindings |-> "ok"],
               defaults |-> FALSE],
              NoRes, [b \in RoleBindings |-> <<>>])

InitBind ==
    /\ clusters = [k \in BindKeys |->
                      [PoolCluster EXCEPT !.status = updateStatus(FirstConvergence(k).status,
                                                                  FirstConvergence(k).err)]]
    /\ fresh = [k \in BindKeys |-> {}]
    /\ nsLabel = [ns \in Namespaces |-> ""]
    /\ policies = [p \in PolicyNames |-> VirtualClusterMode]
    /\ res = [k \in BindKeys |-> FirstConvergence(k).res]
    /\ bindings = [b \in RoleBindings |-> <<>>]
    /\ queue = BindKeys
    /\ dirty = {}
    /\ pass = [w \in PoolWorkers |-> IdlePass]
    /\ host = [gitVersion |-> <<"v1.31.0", "+", "k3s1">>,
               answer |-> [hint |-> EmptyText, listFails |-> FALSE, flag |-> EmptyText]]
    /\ serverUp = BindKeys
    /\ events = 0
    /\ nsEvent = NoEvent
    /\ hist = [k \in BindKeys |-> [passes |-> PassCap, settled |-> FALSE]]

NextBind ==
    \/ \E k \in BindKeys : DeleteCluster(k)
    \/ \E w \in PoolWorkers, k \in BindKeys : Load(w, k)
    \/ \E w \in PoolWorkers, cleaned \in SUBSET RoleBindings : Finalize(w, cleaned)
    \/ \E w \in PoolWorkers :
          pass[w].pc = "loaded" /\ \E env \in Environments(w) : Converge(w, env)
    \/ \E w \in PoolWorkers : Finish(w)

SpecBind == InitBind /\ [][NextBind]_vars

(***************************************************************************)
(* One Cluster, newly created or after its first convergence, its server   *)
(* not up yet, and a convergence whose parts outside the source at hand    *)
(* may default the spec in memory.  Calls fail, the server comes up, a     *)
(* user edits the spec.                                                    *)
(***************************************************************************)
DefaultingEnvironments(w) ==
    {[env EXCEPT !.defaults = d] : env \in Environments(w), d \in BOOLEAN}

InitDefaults ==
    /\ \E new \in BOOLEAN :
          /\ clusters = [k \in Keys |->
                IF k # AnyKey THEN NoCluster
                ELSE IF new THEN [PoolCluster EXCEPT !.finalizers = {}, !.status = ZeroStatus]
                ELSE [PoolCluster EXCEPT
                         !.status = updateStatus(FirstConvergence(k).status,
                                                 FirstConvergence(k).err)]]
          /\ res = [k \in Keys |->
                IF k = AnyKey /\ ~new THEN FirstConvergence(k).res ELSE NoRes]
    /\ fresh = [k \in Keys |-> {}]
    /\ nsLabel = [ns \in Namespaces |-> ""]
    /\ policies = [p \in PolicyNames |-> VirtualClusterMode]
    /\ bindings = [b \in RoleBindings |-> <<>>]
    /\ queue = {AnyKey}
    /\ dirty = {}
    /\ pass = [w \in Workers |-> IdlePass]
    /\ host = [gitVersion |-> <<"v1.31.0", "+", "k3s1">>,
               answer |-> [hint |-> EmptyText, listFails |-> FALSE, flag |-> EmptyText]]
    /\ serverUp = {}
    /\ events = 0
    /\ nsEvent = NoEvent
    /\ hist = [k \in Keys |-> [passes |-> PassCap, settled |-> FALSE]]

NextDefaults ==
    \/ \E k \in Keys, cc \in SpecCIDRs, sc \in SpecCIDRs : EditSpec(k, cc, sc)
    \/ \E k \in Keys : ServerStarts(k)
    \/ \E w \in Workers, k \in Keys : Load(w, k)
    \/ \E w \in Workers : SetInitialStatus(w)
    \/ \E w \in Workers : EnsureFinalizer(w)
    \/ \E w \in Workers :
          pass[w].pc = "loaded" /\ \E env \in DefaultingEnvironments(w) : Converge(w, env)
    \/ \E w \in Workers : Finish(w)

SpecDefaults == InitDefaults /\ [][NextDefaults]_vars

\* C13: with several workers configured, at most one pass is in flight for
\* a given Cluster at any time: two workers in a pass never hold the same
\* request, and a request is never queued while its Cluster is in flight
C13_SingleFlight ==
    /\ \A v, w \in DOMAIN pass :
          (v # w /\ pass[v].pc # "idle" /\ pass[w].pc # "idle") => pass[v].key # pass[w].key
    /\ queue \cap Processing = {}
    /\ dirty \subseteq Processing

\* two passes in flight on two Clusters while an event for one of them waits
C13_Witness ==
    /\ pass["w1"].pc = "loaded" /\ pass["w2"].pc = "loaded"
    /\ pass["w1"].key # pass["w2"].key
    /\ pass["w1"].key \in dirty

\* C14: a finalization pass attempts the removal of the Cluster's subject
\* from the role bindings before it removes the finalizer, and it removes
\* the finalizer whether or not the subject was removed everywhere: the
\* bindings it got to no longer hold the subject, also when the write of the
\* finalizer was rejected afterwards, and an accepted pass leaves no
\* finalizer behind whatever it got to
C14_FinalizationOrder ==
    \A w \in DOMAIN pass :
        LET p == pass[w]
        IN (p.pc = "done" /\ p.branch = "finalize") =>
              /\ \A b \in p.cleaned : ~Contains(bindings[b], SubjectOf(p.key))
              /\ p.rejected => p.writes \subseteq RoleBindings
              /\ ~p.rejected =>
                    /\ clusterFinalizerName \in p.orig.finalizers => "cluster" \in p.writes
                    /\ clusterFinalizerName \notin clusters[p.key].finalizers

\* the finalizer was removed although the subject is still in a binding that
\* the removal did not get to, and was taken out of the other
C14_Witness ==
    \E w \in DOMAIN pass :
        LET p == pass[w]
        IN /\ p.pc = "done" /\ p.branch = "finalize" /\ ~p.rejected
           /\ clusterFinalizerName \in p.orig.finalizers
           /\ p.cleaned # {} /\ p.cleaned # RoleBindings
           /\ p.cleaned \subseteq p.writes
           /\ \E b \in RoleBindings \ p.cleaned : Contains(bindings[b], SubjectOf(p.key))

\* a pass on a Cluster that was created with mode shared, no version and no
\* address ranges, and is not being deleted
ScenarioPass(p) ==
    /\ p.pc = "done" /\ p.orig.exists /\ ~p.orig.deleting
    /\ p.orig.spec.mode = SharedClusterMode
    /\ p.orig.spec.version = EmptyText
    /\ p.orig.spec.clusterCIDR = EmptyText /\ p.orig.spec.serviceCIDR = EmptyText

\* C15 as stated: on a Cluster created with mode shared, no version and no
\* address ranges the first pass sets the phase Provisioning and requeues,
\* and the second pass records the host version with the suffix -k3s1
C15_SecondPassResolvesVersion ==
    \A w \in Workers :
        LET p == pass[w]
        IN (ScenarioPass(p) /\ ~p.rejected) =>
              /\ p.n = 1 => (p.obj.status.phase = ClusterProvisioning /\ p.result = RequeueResult)
              /\ p.n = 2 => (/\ p.obj.status.hostVersion # EmptyText
                             /\ p.obj.status.hostVersion[Len(p.obj.status.hostVersion)] = "-k3s1")

\* C15, amended: on such a Cluster the first pass sets the phase Provisioning
\* and requeues without resolving a version; the second pass, which finds
\* that phase, adds the finalizer and requeues, still without a version; the
\* third pass is the first to converge, and once it is past the version
\* step it has recorded the version the host reports, cut at "+", with the
\* suffix -k3s1, and writes it with the status
C15_ThirdPassResolvesVersion ==
    \A w \in Workers :
        LET p == pass[w]
        IN ScenarioPass(p) =>
              /\ p.n = 1 =>
                    /\ p.branch = "init"
                    /\ p.obj.status.phase = ClusterProvisioning
                    /\ p.obj.status.hostVersion = EmptyText
                    /\ ~p.rejected => (p.writes = {"status"} /\ p.result = RequeueResult)
              /\ (p.n = 2 /\ p.orig.status.phase = ClusterProvisioning) =>
                    /\ p.branch = "finalizer"
                    /\ p.obj.status.hostVersion = EmptyText
                    /\ ~p.rejected => (p.writes = {"cluster"} /\ p.result = RequeueResult)
              /\ (/\ p.n = 3 /\ p.branch = "converge"
                  /\ \/ p.err = "none"
                     \/ p.err # "none" /\ StepIndex(p.errStep) > StepIndex("serverVersion")) =>
                    /\ p.seen = <<"v1.31.0", "+", "k3s1">> =>
                           p.obj.status.hostVersion = <<"v1.31.0", "-k3s1">>
                    /\ p.seen = <<"v1.32.0">> =>
                           p.obj.status.hostVersion = <<"v1.32.0", "-k3s1">>
                    /\ ~p.rejected => "status" \in p.writes

\* the third pass on such a Cluster has recorded the version of the host
C15_Witness ==
    \E w \in Workers :
        LET p == pass[w]
        IN /\ ScenarioPass(p) /\ p.n = 3 /\ p.branch = "converge"
           /\ p.orig.status.hostVersion = EmptyText
           /\ p.seen = <<"v1.31.0", "+", "k3s1">>
           /\ "status" \in p.writes
           /\ clusters[p.key].status.hostVersion = <<"v1.31.0", "-k3s1">>

\* C16: a namespace event enqueues requests only when it is an update that
\* changes the value of the policy label, and then for every Cluster of that
\* namespace and for nothing else; a create event, a delete event and an
\* update that leaves the label as it was enqueue nothing
C16_NamespaceEventsEnqueue ==
    [][nsEvent' # nsEvent =>
        LET e == nsEvent'
            expected == IF e.kind = "update" /\ e.old # e.new
                        THEN {k \in PoolKeys : NsOf(k) = e.ns /\ clusters[k].exists}
                        ELSE {}
        IN /\ queue \subseteq queue' /\ dirty \subseteq dirty'
           /\ (queue' \cup dirty') \ (queue \cup dirty) \subseteq expected
           /\ expected \subseteq queue' \cup dirty'
           /\ e.ns = "ns1" => <<"ns2", "alpha">> \in dirty' <=> <<"ns2", "alpha">> \in dirty]_vars

\* C17: a pass on a Cluster with a deletion timestamp runs the finalization
\* and nothing else, whatever the phase and whether or not the finalizer is
\* present: it leaves status and spec as loaded, adds no finalizer, and
\* writes no owned object; all it may write are the role bindings and the
\* Cluster without the finalizer
C17_DeletingOnlyFinalizes ==
    \A w \in Workers :
        LET p == pass[w]
        IN (p.pc = "done" /\ p.orig.exists /\ p.orig.deleting) =>
              /\ p.branch = "finalize"
              /\ p.obj.status = p.orig.status
              /\ p.obj.spec = p.orig.spec
              /\ p.obj.finalizers = p.orig.finalizers \ {clusterFinalizerName}
              /\ p.writes \subseteq RoleBindings \cup {"cluster"}

\* a deleting Cluster without phase and without finalizer was finalized
C17_Witness ==
    \E w \in Workers :
        LET p == pass[w]
        IN /\ p.pc = "done" /\ p.orig.exists /\ p.orig.deleting
           /\ p.orig.status.phase = "" /\ p.orig.finalizers = {}
           /\ p.branch = "finalize"
           /\ p.writes \subseteq RoleBindings

\* C18: a convergence runs its steps in the order address ranges, network
\* policy, service, configuration objects, server, agent, ingress, bootstrap
\* secret, kubeconfig secret, role bindings, and stops at the first step
\* that fails: when a pass ends with an error, the objects of the steps
\* before the failing one exist, or are gone where the step removes them
\* (the network policy of a governed namespace, the ingress of a Cluster
\* that is not exposed), no object of a later step was written, the address
\* ranges are as loaded when the failure came before their resolution, and
\* the role bindings are untouched unless the failing step is the last one
C18_StepsInOrder ==
    \A w \in Workers :
        LET p == pass[w]
            order == <<"netpol", "service", "initConfig", "serverConfig", "headless",
                       "statefulset", "agent", "ingress", "bootstrap", "kubeconfig">>
            pos(kind) == CHOOSE i \in 1..Len(order) : order[i] = kind
            early == {"nsGet", "policyGet", "validate", "serverVersion", "token"}
            failPos == IF p.errStep \in early THEN 0
                       ELSE IF p.errStep \in {"kubeletPort", "webhookPort"} THEN pos("agent")
                       ELSE IF p.errStep = "bind" THEN Len(order) + 1
                       ELSE pos(p.errStep)
            removed(kind) == \/ kind = "netpol" /\ p.label # ""
                             \/ kind = "ingress" /\ ~p.orig.spec.expose
        IN (p.pc = "done" /\ p.branch = "converge" /\ p.err # "none") =>
              /\ \A i \in 1..Len(order) :
                    /\ i < failPos => (res[p.key][order[i]] = Absent <=> removed(order[i]))
                    /\ i > failPos => order[i] \notin p.writes
              /\ p.errStep \in early =>
                    /\ p.obj.status.clusterCIDR = p.orig.status.clusterCIDR
                    /\ p.obj.status.serviceCIDR = p.orig.status.serviceCIDR
              /\ p.errStep \notin early => p.obj.status.clusterCIDR # EmptyText
              /\ p.errStep # "bind" => p.writes \cap RoleBindings = {}

\* the agent step failed: the server's stateful set was written by this
\* pass, and neither the secrets nor the role bindings exist
C18_Witness ==
    \E w \in Workers :
        LET p == pass[w]
        IN /\ p.pc = "done" /\ p.branch = "converge"
           /\ p.err # "none" /\ p.errStep = "agent"
           /\ {"service", "statefulset"} \subseteq p.writes
           /\ res[p.key]["agent"] = Absent
           /\ res[p.key]["bootstrap"] = Absent /\ res[p.key]["kubeconfig"] = Absent
           /\ \A b \in RoleBindings : bindings[b] = <<>>

\* C19: whatever passes have run, on one Cluster repeatedly or on several
\* in turn, a role binding holds the subject of a Cluster at most once; and
\* a convergence that finds the subject in a binding leaves that binding as
\* it is
C19_SubjectAtMostOnce ==
    /\ [](\A b \in RoleBindings, k \in BindKeys :
            Cardinality({i \in 1..Len(bindings[b]) : bindings[b][i] = SubjectOf(k)}) <= 1)
    /\ [][\A w \in PoolWorkers :
            (pass[w].pc = "loaded" /\ pass'[w].pc = "done" /\ pass'[w].branch = "converge") =>
                \A b \in RoleBindings :
                    Contains(bindings[b], SubjectOf(pass[w].key)) =>
                        bindings'[b] = bindings[b]]_vars

\* a successful pass on a Cluster whose subject is in both bindings, next to
\* that of the other Cluster, has not written them
C19_Witness ==
    \E w \in PoolWorkers :
        LET p == pass[w]
        IN /\ p.pc = "done" /\ p.branch = "converge" /\ p.err = "none"
           /\ p.orig.status.phase = "Running"
           /\ p.writes \cap RoleBindings = {}
           /\ \A b \in RoleBindings :
                 /\ Len(bindings[b]) = 2
                 /\ Contains(bindings[b], SubjectOf(p.key))

\* C20: in the role-binding step a binding that cannot be read or updated
\* does not keep the step from the other one: every binding whose calls
\* succeed holds the subject afterwards, a binding whose call failed is not
\* written, and the step returns an error exactly when a Get failed or an
\* Update that was needed failed
C20_BindingsIndependent ==
    \A w \in PoolWorkers :
        LET p == pass[w]
            x == SubjectOf(p.key)
            failed == {b \in RoleBindings :
                          \/ p.rb[b] = "getFails"
                          \/ p.rb[b] = "updateFails" /\ ~Contains(bindings[b], x)}
        IN (p.pc = "done" /\ p.branch = "converge" /\ (p.err = "none" \/ p.errStep = "bind")) =>
              /\ \A b \in RoleBindings :
                    /\ p.rb[b] = "ok" => Contains(bindings[b], x)
                    /\ p.rb[b] # "ok" => b \notin p.writes
              /\ (p.errStep = "bind") <=> (failed # {})
              /\ p.errStep = "bind" => p.err = "io"

\* the first binding could not be read; the second got the subject, and the
\* step returned an error
C20_Witness ==
    \E w \in PoolWorkers :
        LET p == pass[w]
        IN /\ p.pc = "done" /\ p.branch = "converge" /\ p.errStep = "bind"
           /\ p.rb[clusterRoles[1]] = "getFails" /\ p.rb[clusterRoles[2]] = "ok"
           /\ ~Contains(bindings[clusterRoles[1]], SubjectOf(p.key))
           /\ Contains(bindings[clusterRoles[2]], SubjectOf(p.key))
           /\ clusterRoles[2] \in p.writes

\* C21: a convergence pass writes the Cluster object, spec and metadata,
\* only when its convergence returned no error and the spec in memory
\* differs from the snapshot taken before convergence; after a convergence
\* that failed, with a server that is not ready or otherwise, the stored
\* spec and finalizers are what they were, whatever was defaulted in memory
C21_SpecWrittenOnlyOnSuccess ==
    /\ [](\A w \in Workers :
            LET p == pass[w]
            IN (p.pc = "done" /\ p.branch = "converge") =>
                  /\ "cluster" \in p.writes =>
                        (p.err = "none" /\ p.obj.spec # p.orig.spec)
                  /\ p.err # "none" => "cluster" \notin p.writes)
    /\ [][\A w \in Workers :
            (/\ pass[w].pc = "loaded" /\ pass'[w].pc = "done"
             /\ pass'[w].branch = "converge" /\ pass'[w].err # "none") =>
                /\ clusters'[pass[w].key].spec = clusters[pass[w].key].spec
                /\ clusters'[pass[w].key].finalizers = clusters[pass[w].key].finalizers]_vars

\* a successful convergence left the status as it was and persisted the
\* spec that was defaulted in memory
C21_Witness ==
    \E w \in Workers :
        LET p == pass[w]
        IN /\ p.pc = "done" /\ p.branch = "converge" /\ p.err = "none"
           /\ ~p.orig.spec.defaulted /\ p.obj.spec.defaulted
           /\ p.writes = {"cluster"}
           /\ clusters[p.key].spec.defaulted

(***************************************************************************)
(* The loop of bindClusterRoles step by step: two Clusters after their     *)
(* first convergence, their servers up, two workers.  The Get and the      *)
(* Update of a role binding are separate steps, so that the passes of the  *)
(* two Clusters interleave on a binding; Gets and Updates fail.            *)
(***************************************************************************)
\* types.NamespacedName{Name: clusterRole}: a cluster-scoped object
BindingRef(b) == <<"", b>>

\* mutation of Updated: the copy is stored whatever happened since the Get
Updated_Overwrite(stored, copy, current) == copy

\* Client.Update of a binding, line 662: the copy replaces the stored binding
\* when the copy's version is still the current one
Updated(stored, copy, current) == IF current THEN copy ELSE stored

\* the outcomes of the loop so far
OutcomesOf(p) == IF p.at = 0 THEN [b \in RoleBindings |-> "ok"] ELSE p.rb

\* the pass of worker w is in the loop of bindClusterRoles: no earlier step
\* of its reconcile fails
Binding(w) ==
    /\ pass[w].pc = "loaded"
    /\ Branch(pass[w].obj) = "converge"
    /\ pass[w].at < Len(clusterRoles)
    /\ ErrorIndex(pass[w].obj, pass[w].key, CalmEnvironment(w), bindings) >= StepIndex("bind")

\* bindClusterRoles, lines 647-651: Get of the next binding
BindGet(w, fails) ==
    LET p == pass[w]
        b == clusterRoles[p.at + 1]
    IN /\ Binding(w)
       /\ fails => events < MaxEvents
       /\ IF fails
          THEN /\ pass' = [pass EXCEPT ![w].at = p.at + 1,
                                       ![w].rb = [OutcomesOf(p) EXCEPT ![b] = "getFails"]]
               /\ UNCHANGED fresh
          ELSE /\ pass' = [pass EXCEPT ![w].pc = "got", ![w].copy = bindings[b],
                                       ![w].rb = OutcomesOf(p)]
               /\ fresh' = [fresh EXCEPT ![BindingRef(b)] = @ \cup {w}]
       /\ UNCHANGED <<clusters, nsLabel, policies, nsEvent, res, bindings, queue, dirty, host,
                      serverUp, events, hist>>

\* bindClusterRoles, lines 653-665: the subject is appended to the copy and
\* the copy is written, unless the copy holds the subject already
BindUpdate(w, fails) ==
    LET p == pass[w]
        k == p.key
        b == clusterRoles[p.at + 1]
        current == Accepted(w, BindingRef(b))
        after == bindClusterRole(p.copy, SubjectOf(k), "ok")
        write == after # p.copy
        stored == IF write /\ ~fails
                  THEN Updated(bindings[b], after, current) ELSE bindings[b]
    IN /\ p.pc = "got"
       /\ fails => write /\ events < MaxEvents
       /\ bindings' = [bindings EXCEPT ![b] = stored]
       /\ fresh' = IF stored # bindings[b] THEN [fresh EXCEPT ![BindingRef(b)] = {}] ELSE fresh
       /\ pass' = [pass EXCEPT ![w].pc = "loaded", ![w].at = p.at + 1, ![w].copy = <<>>,
                               ![w].rb = [p.rb EXCEPT ![b] =
                                   IF write /\ (fails \/ ~current) THEN "updateFails" ELSE "ok"]]
       /\ hist' = IF write /\ ~fails /\ ~current THEN [hist EXCEPT ![k].raced = TRUE] ELSE hist
       /\ UNCHANGED <<clusters, nsLabel, policies, nsEvent, res, queue, dirty, host, serverUp,
                      events>>

\* the pass after bindClusterRoles, or after an earlier step of reconcile failed
ConvergeEnd(w) ==
    /\ pass[w].pc = "loaded"
    /\ ~Binding(w)
    /\ Converge(w, [CalmEnvironment(w) EXCEPT !.rb = OutcomesOf(pass[w])])

InitRace ==
    /\ clusters = [k \in BindKeys |->
                      [PoolCluster EXCEPT !.status = updateStatus(FirstConvergence(k).status,
                                                                  FirstConvergence(k).err)]]
    /\ fresh = [k \in BindKeys \cup {BindingRef(b) : b \in RoleBindings} |-> {}]
    /\ nsLabel = [ns \in Namespaces |-> ""]
    /\ policies = [p \in PolicyNames |-> VirtualClusterMode]
    /\ res = [k \in BindKeys |-> FirstConvergence(k).res]
    /\ bindings = [b \in RoleBindings |-> <<>>]
    /\ queue = BindKeys
    /\ dirty = {}
    /\ pass = [w \in PoolWorkers |-> IdlePass]
    /\ host = [gitVersion |-> <<"v1.31.0", "+", "k3s1">>,
               answer |-> [hint |-> EmptyText, listFails |-> FALSE, flag |-> EmptyText]]
    /\ serverUp = BindKeys
    /\ events = 0
    /\ nsEvent = NoEvent
    /\ hist = [k \in BindKeys |-> [passes |-> PassCap, settled |-> FALSE, raced |-> FALSE]]

\* workers are interchangeable: each of the two takes the requests of one
\* of the two Clusters
Takes(w) == IF w = "w1" THEN <<"ns1", "alpha">> ELSE <<"ns1", "beta">>

NextRace ==
    \/ \E w \in PoolWorkers : Load(w, Takes(w))
    \/ \E w \in PoolWorkers, fails \in BOOLEAN : BindGet(w, fails)
    \/ \E w \in PoolWorkers, fails \in BOOLEAN : BindUpdate(w, fails)
    \/ \E w \in PoolWorkers : ConvergeEnd(w)
    \/ \E w \in PoolWorkers : Finish(w)

SpecRace == InitRace /\ [][NextRace]_vars

(***************************************************************************)
(* One valid Cluster, newly created and never deleted, and no call that    *)
(* fails: the worker and the queue go on as long as there is something to  *)
(* do.  The server of the Cluster comes up at some moment after its        *)
(* stateful set was created, or never; until then the bootstrap data       *)
(* cannot be generated.                                                    *)
(***************************************************************************)
InitLive ==
    /\ nsLabel \in [Namespaces -> {""} \cup PolicyNames]
    /\ policies = [p \in PolicyNames |-> VirtualClusterMode]
    /\ \E s \in Specs, ph \in {"", ClusterUnknown} :
          /\ validate([spec |-> s], AnyKey,
                      IF nsLabel[NsOf(AnyKey)] = "" THEN s.mode
                      ELSE policies[nsLabel[NsOf(AnyKey)]]) = "none"
          /\ clusters = [k \in Keys |->
                IF k = AnyKey
                THEN [exists |-> TRUE, deleting |-> FALSE, finalizers |-> {}, spec |-> s,
                      status |-> [ZeroStatus EXCEPT !.phase = ph]]
                ELSE NoCluster]
    /\ fresh = [k \in Keys |-> {}]
    /\ res = [k \in Keys |-> NoRes]
    /\ bindings = [b \in RoleBindings |-> <<>>]
    /\ queue = {AnyKey}
    /\ dirty = {}
    /\ pass = [w \in Workers |-> IdlePass]
    /\ host \in [gitVersion : {<<"v1.31.0", "+", "k3s1">>}, answer : HostAnswers]
    /\ serverUp = {}
    /\ events = 0
    /\ nsEvent = NoEvent
    /\ hist = [k \in Keys |-> NoHistory]

\* a step of worker w: the queue hands it a request, or its pass goes on
WorkerStep(w) ==
    \/ \E k \in Keys : Load(w, k)
    \/ SetInitialStatus(w)
    \/ EnsureFinalizer(w)
    \/ pass[w].pc = "loaded" /\ Converge(w, CalmEnvironment(w))
    \/ Finish(w)

NextLive ==
    \/ \E k \in Keys : ServerStarts(k)
    \/ \E w \in Workers, k \in Keys : Load(w, k)
    \/ \E w \in Workers : SetInitialStatus(w)
    \/ \E w \in Workers : EnsureFinalizer(w)
    \/ \E w \in Workers : pass[w].pc = "loaded" /\ Converge(w, CalmEnvironment(w))
    \/ \E w \in Workers : Finish(w)

SpecLive == InitLive /\ [][NextLive]_vars /\ \A w \in Workers : WF_vars(WorkerStep(w))

\* the owned objects a Cluster has once it converged: no standalone network
\* policy under a policy, no ingress when the Cluster is not exposed
OwnedKinds(c) ==
    ResKinds \ ((IF c.status.policyName # "" THEN {"netpol"} ELSE {})
                   \cup (IF c.spec.expose THEN {} ELSE {"ingress"}))

\* the Cluster is converged and nothing is left to do for it
AtRest(k) ==
    /\ clusters[k].exists
    /\ clusters[k].status.phase = "Running"
    /\ clusterFinalizerName \in clusters[k].finalizers
    /\ \A kind \in OwnedKinds(clusters[k]) : res[k][kind] # Absent
    /\ \A b \in RoleBindings : Contains(bindings[b], SubjectOf(k))
    /\ k \notin queue \cup dirty
    /\ \A w \in Workers : pass[w].pc = "idle"

\* the Cluster has its phase, its finalizer and every owned object that
\* does not need the server of the Cluster
Provisioned(k) ==
    /\ clusters[k].exists
    /\ ~NeedsInitialStatus(clusters[k])
    /\ clusterFinalizerName \in clusters[k].finalizers
    /\ \A kind \in OwnedKinds(clusters[k]) \ {"bootstrap", "kubeconfig"} :
          res[k][kind] # Absent

\* C24: the newly created Cluster eventually has its phase set, its
\* finalizer and every owned object of its mode that does not need its
\* server; once the server is up, so that the bootstrap data can be
\* generated, the Cluster eventually has its phase set to Running, its
\* finalizer, every owned object of its mode and its subject in the role
\* bindings, with no request queued and no pass in flight; and it stays so
C24_EventuallyAtRest ==
    /\ <>Provisioned(AnyKey)
    /\ (AnyKey \in serverUp) ~> AtRest(AnyKey)
    /\ [][AtRest(AnyKey) => AtRest(AnyKey)']_vars

\* a Cluster of the shared mode that mirrors the host nodes is at rest
C24_Witness ==
    /\ AtRest(AnyKey)
    /\ AnyKey \in serverUp
    /\ clusters[AnyKey].spec.mode = SharedClusterMode
    /\ clusters[AnyKey].spec.mirrorHostNodes
    /\ clusters[AnyKey].status.kubeletPort # 0

\* C23: no step takes a subject out of a role binding; an Update of a copy
\* that is no longer the stored binding stores nothing and the pass ends
\* with an error; and once a pass of a Cluster ended without error, the
\* Cluster's subject is in every role binding
C23_NoSubjectLost ==
    /\ [](\A w \in PoolWorkers :
            LET p == pass[w]
            IN /\ (p.pc = "done" /\ p.branch = "converge" /\ p.err = "none") =>
                     \A b \in RoleBindings : Contains(bindings[b], SubjectOf(p.key))
               /\ (p.pc = "done" /\ p.branch = "converge"
                      /\ \E b \in RoleBindings : p.rb[b] = "updateFails") =>
                     p.err = "io" /\ p.result.err # "none")
    /\ [](\A k \in BindKeys :
            hist[k].settled => \A b \in RoleBindings : Contains(bindings[b], SubjectOf(k)))
    /\ [][/\ \A b \in RoleBindings : \A i \in 1..Len(bindings[b]) :
               Contains(bindings'[b], bindings[b][i])
          /\ \A w \in PoolWorkers :
               (pass[w].pc = "got"
                  /\ pass[w].copy # bindings[clusterRoles[pass[w].at + 1]]
                  /\ ~Contains(pass[w].copy, SubjectOf(pass[w].key))
                  /\ pass'[w].pc = "loaded") =>
                    /\ bindings' = bindings
                    /\ pass'[w].rb[clusterRoles[pass[w].at + 1]] = "updateFails"]_vars

\* the pass of a Cluster whose Update of a binding was rejected was retried
\* and ended without error, no call failed, and every binding holds the
\* subjects of both Clusters
C23_Witness ==
    /\ events = 1
    /\ \A b \in RoleBindings : \A k \in BindKeys : Contains(bindings[b], SubjectOf(k))
    /\ \E w \in PoolWorkers :
          LET p == pass[w]
          IN /\ p.pc = "done" /\ p.branch = "converge" /\ p.err = "none"
             /\ hist[p.key].raced

\* C22: a pass whose write to the Cluster is rejected because the Cluster
\* was modified after the pass loaded it stores nothing of the Cluster and
\* ends with the error of the write; a pass that works on a copy that is
\* no longer the stored one never changes the stored Cluster; the request of
\* a rejected pass goes back to the queue, and every pass starts from the
\* Cluster as it is stored when the pass loads it
C22_RejectedWriteEndsPass ==
    [][\A w \in Workers :
        /\ (pass[w].pc = "loaded" /\ pass'[w].pc = "done") =>
              /\ pass[w].orig # clusters[pass[w].key] =>
                    clusters'[pass[w].key] = clusters[pass[w].key]
              /\ pass'[w].rejected =>
                    /\ clusters' = clusters
                    /\ pass'[w].result = ErrorResult("conflict")
                    /\ pass'[w].writes \cap {"status", "cluster"} = {}
        /\ (pass[w].pc = "done" /\ pass[w].rejected /\ pass'[w].pc = "idle") =>
              pass[w].key \in queue'
        /\ (pass[w].pc = "idle" /\ pass'[w].pc = "loaded") =>
              /\ pass'[w].orig = clusters[pass'[w].key]
              /\ pass'[w].obj = clusters[pass'[w].key]]_vars

\* the write of a defaulted spec was rejected: the Cluster had been edited
\* after the load, and it is stored as edited
C22_Witness ==
    \E w \in Workers :
        LET p == pass[w]
        IN /\ p.pc = "done" /\ p.branch = "converge" /\ p.err = "none"
           /\ p.rejected /\ p.result = ErrorResult("conflict")
           /\ p.obj.status = p.orig.status
           /\ p.obj.spec.defaulted
           /\ clusters[p.key].spec # p.orig.spec
           /\ ~clusters[p.key].spec.defaulted

====
